---------------------------- MODULE Spec2Model ----------------------------
(***************************************************************************)
(* Route planner and preference scorer of walking_tour                     *)
(* (src/src/route_planner.py, src/src/poi_scorer.py).                      *)
(*                                                                         *)
(* One behaviour of the model is one call of plan_route,                   *)
(* plan_route_with_preferences or rank_pois: Init draws the arguments, the *)
(* actions are the steps of the called function.                           *)
(*                                                                         *)
(* Arithmetic.  The code computes in floating point; the model computes    *)
(* the same quantities exactly, in fixed units:                            *)
(*   - a latitude is counted in steps of 1/(EARTH_RADIUS_KM * 1000) rad,   *)
(*     so that one step of latitude is one metre of meridian arc;          *)
(*   - a distance is in metres (the code: km);                             *)
(*   - a time is in 1/1000 minute (the code: minutes);                     *)
(*   - a weight and a popularity are in tenths;                            *)
(*   - a score is in units of 1/ScoreScale.                                *)
(* Weights may also be subnormal doubles: a weights dict carries, beside   *)
(* its three keys, the unit its numbers are counted in, "tenth" or         *)
(* "5e-324" (the smallest positive double).  With the latter every product *)
(* of score_poi is rounded to a whole multiple of 5e-324, to nearest and   *)
(* ties to even, as the double multiplication does, and the score is       *)
(* counted in multiples of 5e-324.                                         *)
(* A longitude is counted in steps of 1e-170 degree from lng 0.0: the      *)
(* longitudes of the model differ by so little that sin(dlng / 2) ** 2     *)
(* underflows to 0.0 in the code's double arithmetic, and the haversine    *)
(* formula reduces to EARTH_RADIUS_KM * |dlat|.  The planners' inputs all  *)
(* lie on one meridian (lng = Meridian).                                   *)
(*                                                                         *)
(* A Python dict is a TLA+ function: `key in d' is key \in DOMAIN d.       *)
(* None is the empty tuple <<>> and a given optional value v is <<v>>.     *)
(* A lat or lng value is <<"num", n>> (a number) or <<"str", 0>> (a value  *)
(* that is not a number, on which math.radians raises TypeError).          *)
(***************************************************************************)
EXTENDS Integers, Sequences, FiniteSets, TLC

(***************************************************************************)
(* Units                                                                   *)
(***************************************************************************)
MetresPerKm == 1000
MilliPerMinute == 1000
MinutesPerHour == 60

\* route_planner.py:47-48
WALKING_SPEED_KMH == 5
DEFAULT_VISIT_TIME_MINUTES == 5

Abs(x) == IF x < 0 THEN -x ELSE x
MinOf(a, b) == IF a < b THEN a ELSE b
MaxOf(a, b) == IF a > b THEN a ELSE b

\* Python's round(x, ndigits) on a value n counted in units of which q make
\* one unit of the last kept digit: the nearest multiple of q, a tie going
\* to the even one.  The result is counted in units of q.
PyRound(n, q) ==
    LET k == n \div q
        r == n % q
    IN  IF 2 * r < q THEN k
        ELSE IF 2 * r > q THEN k + 1
        ELSE IF k % 2 = 0 THEN k ELSE k + 1

Num(n) == <<"num", n>>
NotANumber == <<"str", 0>>
IsNumber(v) == v[1] = "num"

None == <<>>
Some(v) == <<v>>
IsNone(o) == o = <<>>
Get(o) == o[1]

Meridian == 0

(***************************************************************************)
(* route_planner.py: calculate_distance, estimate_walking_time             *)
(***************************************************************************)

\* A distance that keeps the sign of the difference of latitudes.
SignedDistance(coord1, coord2) == coord2[1] - coord1[1]

\* calculate_distance (52-76), for two numeric coordinates: the term
\* cos(lat1) * cos(lat2) * sin(dlng/2)^2 is 0.0 (dlng is 0 or underflows),
\* a = sin(dlat/2)^2, c = 2 asin(sqrt(a)) = |dlat|, and the result
\* EARTH_RADIUS_KM * c is |lat2 - lat1| metres.
calculate_distance(coord1, coord2) == Abs(coord2[1] - coord1[1])

\* estimate_walking_time (79-90): hours = km / 5, minutes = hours * 60.
\* Metres in, 1/1000 minutes out: (m / 1000 / 5) * 60 * 1000.
estimate_walking_time(distance) ==
    (distance * MinutesPerHour * MilliPerMinute)
        \div (WALKING_SPEED_KMH * MetresPerKm)

(***************************************************************************)
(* poi_scorer.py: registry, weights, score components                      *)
(***************************************************************************)

\* USER_PROFILES (21-46); only 'interests' is read by the planner.
USER_PROFILES ==
    [history_lover |->
        [interests |-> <<"history", "medieval", "military", "political", "victorian">>],
     ghost_hunter |->
        [interests |-> <<"haunted", "mysterious", "ruins", "religious", "dramatic">>],
     architecture_fan |->
        [interests |-> <<"architecture", "georgian", "engineering", "folly", "medieval">>],
     nature_seeker |->
        [interests |-> <<"nature", "scenic", "picturesque", "peaceful", "romantic">>],
     culture_enthusiast |->
        [interests |-> <<"culture", "arts", "educational", "local", "social">>],
     casual_tourist |->
        [interests |-> <<"history", "architecture", "scenic", "culture", "picturesque">>]]

\* DEFAULT_WEIGHTS (50-54), in tenths.
DEFAULT_WEIGHTS == [alpha |-> 6, beta |-> 3, delta |-> 1, unit |-> "tenth"]

\* str.lower on the strings of the model: the capitalised tags map to their
\* lower-case form, every other string is already lower case.
Lower(s) ==
    CASE s = "Haunted" -> "haunted"
      [] s = "History" -> "history"
      [] OTHER -> s

Range(seq) == {seq[i] : i \in 1..Len(seq)}

\* The value of a score 1.0, and of a Jaccard ratio 1.0: common multiples of
\* the denominators that occur (tenths of weights and popularity, unions of
\* 1..8 tags, the 2000 m of the distance penalty).
JaccardScale == 840
PenaltyScale == 2000
ScoreScale == 10 * JaccardScale * 10 * PenaltyScale

\* An interest match that compares the POI's tags as they are written.
InterestMatchCaseSensitive(poi, user_interests) ==
    IF "vibe_tags" \notin DOMAIN poi \/ poi.vibe_tags = <<>> THEN 0
    ELSE
        LET poi_tags == Range(poi.vibe_tags)
            user_tags == {Lower(t) : t \in Range(user_interests)}
            intersection == Cardinality(poi_tags \cap user_tags)
            union == Cardinality(poi_tags \cup user_tags)
        IN  IF poi_tags = {} \/ user_tags = {} THEN 0
            ELSE IF union > 0 THEN (intersection * JaccardScale) \div union
            ELSE 0

\* calculate_interest_match (57-83), in units of 1/JaccardScale.
calculate_interest_match(poi, user_interests) ==
    IF "vibe_tags" \notin DOMAIN poi \/ poi.vibe_tags = <<>> THEN 0
    ELSE
        LET poi_tags == {Lower(t) : t \in Range(poi.vibe_tags)}
            user_tags == {Lower(t) : t \in Range(user_interests)}
            intersection == Cardinality(poi_tags \cap user_tags)
            union == Cardinality(poi_tags \cup user_tags)
        IN  IF poi_tags = {} \/ user_tags = {} THEN 0
            ELSE IF union > 0 THEN (intersection * JaccardScale) \div union
            ELSE 0

\* A popularity that takes the hint, when there is one, for the score.
PopularityHintReplaces(poi) ==
    LET base == 5
        s1 == IF "facts" \in DOMAIN poi /\ poi.facts # <<>> THEN base + 3 ELSE base
        s2 == IF "visual_cues" \in DOMAIN poi /\ poi.visual_cues # <<>> THEN s1 + 1 ELSE s1
        s3 == IF "source_reliability" \in DOMAIN poi
              THEN poi.source_reliability ELSE s2
    IN  MinOf(s3, 10)

\* calculate_popularity_score (86-113), in tenths.
calculate_popularity_score(poi) ==
    LET base == 5
        s1 == IF "facts" \in DOMAIN poi /\ poi.facts # <<>> THEN base + 3 ELSE base
        s2 == IF "visual_cues" \in DOMAIN poi /\ poi.visual_cues # <<>> THEN s1 + 1 ELSE s1
        s3 == IF "source_reliability" \in DOMAIN poi
              THEN MaxOf(s2, poi.source_reliability) ELSE s2
    IN  MinOf(s3, 10)

\* calculate_distance_penalty (116-129) with max_distance = 2.0 km, in units
\* of 1/PenaltyScale: min(distance_km / 2.0, 1.0).
calculate_distance_penalty(distance) == MinOf(distance, PenaltyScale)


\* poi['geo']['lat'], poi['geo']['lng'] and the arithmetic on them, as
\* score_poi (155-156) and the planner's scan after its own checks
\* (route_planner.py 139-140) evaluate them: the exception raised, or "none".
CoordsRaise(poi) ==
    IF "geo" \notin DOMAIN poi THEN "KeyError"
    ELSE IF "lat" \notin DOMAIN poi.geo THEN "KeyError"
    ELSE IF "lng" \notin DOMAIN poi.geo THEN "KeyError"
    ELSE IF ~IsNumber(poi.geo.lat) \/ ~IsNumber(poi.geo.lng) THEN "TypeError"
    ELSE "none"

\* poi_coords = (poi['geo']['lat'], poi['geo']['lng']) of a POI whose
\* coordinates are numbers.
PoiCoords(poi) == <<poi.geo.lat[2], poi.geo.lng[2]>>

\* score_poi (132-179) where it does not raise; weights is None or a dict.
\* The three products of 163-167 are exact for weights in tenths; for
\* subnormal weights each is rounded to a whole multiple of 5e-324, and the
\* sums of such multiples are exact.
score_poi(poi, user_interests, current_position, weights) ==
    LET w == IF IsNone(weights) THEN DEFAULT_WEIGHTS ELSE Get(weights)
        distance == calculate_distance(current_position, PoiCoords(poi))
        interest_match == calculate_interest_match(poi, user_interests)
        popularity == calculate_popularity_score(poi)
        distance_penalty == calculate_distance_penalty(distance)
        score == IF w.unit = "5e-324"
                 THEN PyRound(w.alpha * interest_match, JaccardScale)
                      + PyRound(w.beta * popularity, 10)
                      - PyRound(w.delta * distance_penalty, PenaltyScale)
                 ELSE w.alpha * interest_match * (ScoreScale \div (10 * JaccardScale))
                      + w.beta * popularity * (ScoreScale \div (10 * 10))
                      - w.delta * distance_penalty * (ScoreScale \div (10 * PenaltyScale))
    IN  [poi |-> poi,
         score |-> score,
         components |-> [interest_match |-> interest_match,
                         popularity |-> popularity,
                         distance_km |-> distance,
                         distance_penalty |-> distance_penalty]]

\* A lookup that falls back to another profile of the registry.
ResolveInterestsGhost(user_profile) ==
    IF user_profile \in DOMAIN USER_PROFILES
    THEN USER_PROFILES[user_profile].interests
    ELSE USER_PROFILES["ghost_hunter"].interests

\* The profile lookup of rank_pois (203-207) and of
\* plan_route_with_preferences (232-235).
ResolveInterests(user_profile) ==
    IF user_profile \in DOMAIN USER_PROFILES
    THEN USER_PROFILES[user_profile].interests
    ELSE USER_PROFILES["casual_tourist"].interests

(***************************************************************************)
(* The arguments a call is made with                                       *)
(***************************************************************************)

\* The longest candidate list.
MaxPois == 3

Coord(lat) == <<lat, Meridian>>
Geo(lat) == [lat |-> Num(lat), lng |-> Num(Meridian)]

\* POI records: four with coordinates (two of them with the same id, one of
\* these without a name), and
\* one for each way a record can lack usable coordinates.
PoiA == [id |-> 1, name |-> "Castle", geo |-> Geo(125),
         vibe_tags |-> <<"History", "architecture">>,
         facts |-> <<"built in 1071">>, visual_cues |-> <<"keep">>]
PoiB == [id |-> 2, name |-> "Abbey", geo |-> Geo(0),
         vibe_tags |-> <<"Haunted", "ruins">>]
PoiC == [id |-> 3, name |-> "Market", geo |-> Geo(254), vibe_tags |-> <<>>,
         source_reliability |-> 12]
PoiD == [id |-> 1, geo |-> Geo(2500), vibe_tags |-> <<"scenic">>]
PoiNoGeo == [id |-> 4, vibe_tags |-> <<"history">>]
PoiNoLat == [id |-> 4, geo |-> [lng |-> Num(Meridian)]]
PoiNoLng == [id |-> 4, geo |-> [lat |-> Num(125)]]
PoiStrLat == [id |-> 4, geo |-> [lat |-> NotANumber, lng |-> Num(Meridian)]]

PoiCatalogue ==
    {PoiA, PoiB, PoiC, PoiD, PoiNoGeo, PoiNoLat, PoiNoLng, PoiStrLat}

SeqsUpTo(S, n) == UNION {[1..k -> S] : k \in 0..n}
CandidateLists == SeqsUpTo(PoiCatalogue, MaxPois)

\* A start where a POI stands, and one between the POIs, 127 m from two of
\* them.
Starts == {Coord(0), Coord(127)}
Durations == {-1, 0, 3, 4}
VisitTimes == {0, 1}
ProfileNames == {"casual_tourist", "ghost_hunter", "no_such_profile"}
WeightChoices ==
    {None,
     Some([alpha |-> 0, beta |-> 0, delta |-> 10, unit |-> "tenth"]),
     Some([alpha |-> 0, beta |-> 0, delta |-> 1, unit |-> "5e-324"])}
TopNs == {None, Some(-1), Some(0), Some(1)}

(***************************************************************************)
(* State                                                                   *)
(***************************************************************************)
VARIABLES
    fn,                  \* the function called
    score_poi_available, \* route_planner.score_poi is not None (33-43)
    start_coords,        \* rank_pois: its current_position
    candidate_pois,
    duration_minutes,
    visit_time_per_poi,
    return_to_start,
    user_profile,
    scoring_weights,     \* rank_pois: its weights
    top_n,
    pc,                  \* "call", "loop", "after_loop", "done"
    interests,           \* locals of the planners; interests and weights
    weights,             \* are <<>> before they are set, weights <<dict>> after
    route,
    visited_ids,
    current_position,
    time_used,           \* 1/1000 minutes
    total_distance,      \* metres
    poi_scores,
    pick,                \* nearest_poi / best_poi of the last scan, with its
                         \* distance and score
    raised,              \* the exception the call ended with, or "none"
    result,              \* <<>> until the call returns, then <<value>>
    summary              \* <<>>, or <<what get_route_summary(result) gave>>

args == <<fn, score_poi_available, start_coords, candidate_pois,
          duration_minutes, visit_time_per_poi, return_to_start,
          user_profile, scoring_weights, top_n>>
locals == <<interests, weights, route, visited_ids, current_position, time_used,
            total_distance, poi_scores, pick>>
vars == <<args, pc, locals, raised, result, summary>>

NoPick == [poi |-> None, distance |-> 0, score |-> 0]

Init ==
    /\ fn \in {"plan_route", "plan_route_with_preferences", "rank_pois"}
    /\ candidate_pois \in CandidateLists
    /\ start_coords \in Starts
    /\ IF fn = "rank_pois"
       THEN /\ duration_minutes = 0
            /\ visit_time_per_poi = DEFAULT_VISIT_TIME_MINUTES
            /\ return_to_start = FALSE
       ELSE /\ duration_minutes \in Durations
            /\ visit_time_per_poi \in VisitTimes
            /\ return_to_start \in BOOLEAN
    /\ IF fn = "plan_route_with_preferences"
       THEN score_poi_available \in BOOLEAN
       ELSE score_poi_available = TRUE
    /\ IF fn = "plan_route" \/ ~score_poi_available
       THEN /\ user_profile = "casual_tourist"
            /\ scoring_weights = None
       ELSE /\ scoring_weights \in WeightChoices
            /\ IF IsNone(scoring_weights)
               THEN user_profile \in ProfileNames
               ELSE user_profile = "casual_tourist"
    /\ IF fn = "rank_pois" THEN top_n \in TopNs ELSE top_n = None
    /\ pc = "call"
    /\ interests = <<>>
    /\ weights = None
    /\ route = <<>>
    /\ visited_ids = {}
    /\ current_position = start_coords
    /\ time_used = 0
    /\ total_distance = 0
    /\ poi_scores = <<>>
    /\ pick = NoPick
    /\ raised = "none"
    /\ result = None
    /\ summary = None

(***************************************************************************)
(* plan_route (route_planner.py 93-196)                                    *)
(***************************************************************************)

\* The scan's own check (135, 256): the POI has 'geo' with 'lat' and 'lng'.
HasCoordinates(poi) ==
    /\ "geo" \in DOMAIN poi
    /\ "lat" \in DOMAIN poi.geo
    /\ "lng" \in DOMAIN poi.geo

\* duration_minutes in the unit of time_used.
Budget(duration) == duration * MilliPerMinute

\* A budget check that leaves the time of the step out.
FitsBudgetWithoutStep(used, total_time_needed, duration) ==
    ~(used > Budget(duration))

\* The check of 155 / 276, negated: the stop is committed.
FitsBudget(used, total_time_needed, duration) ==
    ~(used + total_time_needed > Budget(duration))

\* A return leg added without a check, and one that must leave time over.
ReturnFitsAlways(used, return_time, duration) == TRUE
ReturnFitsStrictly(used, return_time, duration) ==
    used + return_time < Budget(duration)

\* The check of 178 / 299: the return leg is added to the totals.
ReturnFits(used, return_time, duration) ==
    used + return_time <= Budget(duration)

\* A comparison that lets a later candidate at the same distance win.
IsNearerOrAsNear(distance, nearest_distance) ==
    IsNone(nearest_distance) \/ distance <= Get(nearest_distance)

\* The comparison of 142: distance < nearest_distance, with
\* nearest_distance = float('inf') being None.
IsNearer(distance, nearest_distance) ==
    IsNone(nearest_distance) \/ distance < Get(nearest_distance)

\* A comparison that lets a later candidate with the same score win.
ScoresHigherOrAsHigh(score, best_score) ==
    IsNone(best_score) \/ score >= Get(best_score)

\* The comparison of 262: scored['score'] > best_score, with
\* best_score = -float('inf') being None.
ScoresHigher(score, best_score) ==
    IsNone(best_score) \/ score > Get(best_score)

\* The for loop of 131-144 from candidate i on: the nearest unvisited POI
\* with coordinates, the first one winning a tie (142: strict <).
\* nearest_distance = float('inf') is None.
RECURSIVE NearestScan(_, _, _, _, _, _)
NearestScan(cands, i, visited, position, nearest_poi, nearest_distance) ==
    IF i > Len(cands)
    THEN [raises |-> "none", poi |-> nearest_poi,
          distance |-> IF IsNone(nearest_distance) THEN 0 ELSE Get(nearest_distance),
          score |-> 0]
    ELSE
        LET poi == cands[i] IN
        IF poi.id \in visited
        THEN NearestScan(cands, i + 1, visited, position, nearest_poi, nearest_distance)
        ELSE IF ~HasCoordinates(poi)
        THEN NearestScan(cands, i + 1, visited, position, nearest_poi, nearest_distance)
        ELSE IF CoordsRaise(poi) # "none"
        THEN [raises |-> CoordsRaise(poi), poi |-> None, distance |-> 0, score |-> 0]
        ELSE
            LET distance == calculate_distance(position, PoiCoords(poi)) IN
            IF IsNearer(distance, nearest_distance)
            THEN NearestScan(cands, i + 1, visited, position, Some(poi), Some(distance))
            ELSE NearestScan(cands, i + 1, visited, position, nearest_poi, nearest_distance)

\* The for loop of 252-265 from candidate i on: the best-scoring unvisited
\* POI with coordinates, the first one winning a tie (262: strict >).
\* best_score = -float('inf') is None.
RECURSIVE BestScan(_, _, _, _, _, _, _, _, _)
BestScan(cands, i, visited, position, ints, w, best_poi, best_score, best_distance) ==
    IF i > Len(cands)
    THEN [raises |-> "none", poi |-> best_poi, distance |-> best_distance,
          score |-> IF IsNone(best_score) THEN 0 ELSE Get(best_score)]
    ELSE
        LET poi == cands[i] IN
        IF poi.id \in visited
        THEN BestScan(cands, i + 1, visited, position, ints, w,
                      best_poi, best_score, best_distance)
        ELSE IF ~HasCoordinates(poi)
        THEN BestScan(cands, i + 1, visited, position, ints, w,
                      best_poi, best_score, best_distance)
        ELSE IF CoordsRaise(poi) # "none"
        THEN [raises |-> CoordsRaise(poi), poi |-> None, distance |-> 0, score |-> 0]
        ELSE
            LET scored == score_poi(poi, ints, position, Some(w)) IN
            IF ScoresHigher(scored.score, best_score)
            THEN BestScan(cands, i + 1, visited, position, ints, w,
                          Some(poi), Some(scored.score), scored.components.distance_km)
            ELSE BestScan(cands, i + 1, visited, position, ints, w,
                          best_poi, best_score, best_distance)

\* The arguments and the locals as records, for the steps below.
Args ==
    [fn |-> fn, score_poi_available |-> score_poi_available,
     start_coords |-> start_coords, candidate_pois |-> candidate_pois,
     duration_minutes |-> duration_minutes,
     visit_time_per_poi |-> visit_time_per_poi,
     return_to_start |-> return_to_start, user_profile |-> user_profile,
     scoring_weights |-> scoring_weights, top_n |-> top_n]

Frame ==
    [pc |-> pc, interests |-> interests, weights |-> weights, route |-> route,
     visited_ids |-> visited_ids, current_position |-> current_position,
     time_used |-> time_used, total_distance |-> total_distance,
     poi_scores |-> poi_scores, pick |-> pick, raised |-> raised,
     result |-> result]

\* The frame of a call that has not started.
Frame0(a) ==
    [pc |-> "call", interests |-> <<>>, weights |-> None, route |-> <<>>,
     visited_ids |-> {}, current_position |-> a.start_coords,
     time_used |-> 0, total_distance |-> 0, poi_scores |-> <<>>,
     pick |-> NoPick, raised |-> "none", result |-> None]

Raise(f, exception) == [f EXCEPT !.pc = "done", !.raised = exception]

RECURSIVE SumWalking(_)
SumWalking(stops) ==
    IF stops = <<>> THEN 0
    ELSE stops[1].walking_time_minutes + SumWalking(Tail(stops))

\* 120-124: the locals of plan_route.
PlanRouteEnter(a, f) ==
    [f EXCEPT !.pc = "loop", !.route = <<>>, !.visited_ids = {},
              !.current_position = a.start_coords, !.time_used = 0,
              !.total_distance = 0]

\* A commit that records the score the POI has from the start of the tour.
CommitScoreFromStart(a, f, scan, walking_time, total_time_needed, scored) ==
    [f EXCEPT
        !.pick = [poi |-> scan.poi, distance |-> scan.distance, score |-> scan.score],
        !.route = Append(@, [poi |-> Get(scan.poi),
                             distance_from_previous_km |-> scan.distance,
                             walking_time_minutes |-> walking_time]),
        !.poi_scores =
            IF scored
            THEN Append(@, score_poi(Get(scan.poi), f.interests,
                                     a.start_coords, f.weights).score)
            ELSE @,
        !.visited_ids = @ \cup {Get(scan.poi).id},
        !.current_position = PoiCoords(Get(scan.poi)),
        !.time_used = @ + total_time_needed,
        !.total_distance = @ + scan.distance]

\* A commit that does not record the id of the POI as visited.
CommitForgetsVisited(a, f, scan, walking_time, total_time_needed, scored) ==
    [f EXCEPT
        !.pick = [poi |-> scan.poi, distance |-> scan.distance, score |-> scan.score],
        !.route = Append(@, [poi |-> Get(scan.poi),
                             distance_from_previous_km |-> scan.distance,
                             walking_time_minutes |-> walking_time]),
        !.poi_scores = IF scored THEN Append(@, scan.score) ELSE @,
        !.current_position = PoiCoords(Get(scan.poi)),
        !.time_used = @ + total_time_needed,
        !.total_distance = @ + scan.distance]

\* A commit that leaves the walker's position where it was.
CommitKeepsPosition(a, f, scan, walking_time, total_time_needed, scored) ==
    [f EXCEPT
        !.pick = [poi |-> scan.poi, distance |-> scan.distance, score |-> scan.score],
        !.route = Append(@, [poi |-> Get(scan.poi),
                             distance_from_previous_km |-> scan.distance,
                             walking_time_minutes |-> walking_time]),
        !.poi_scores = IF scored THEN Append(@, scan.score) ELSE @,
        !.visited_ids = @ \cup {Get(scan.poi).id},
        !.time_used = @ + total_time_needed,
        !.total_distance = @ + scan.distance]

\* 158-168 / 279-290: the stop is appended and the totals advance.
Commit(a, f, scan, walking_time, total_time_needed, scored) ==
    [f EXCEPT
        !.pick = [poi |-> scan.poi, distance |-> scan.distance, score |-> scan.score],
        !.route = Append(@, [poi |-> Get(scan.poi),
                             distance_from_previous_km |-> scan.distance,
                             walking_time_minutes |-> walking_time]),
        !.poi_scores = IF scored THEN Append(@, scan.score) ELSE @,
        !.visited_ids = @ \cup {Get(scan.poi).id},
        !.current_position = PoiCoords(Get(scan.poi)),
        !.time_used = @ + total_time_needed,
        !.total_distance = @ + scan.distance]

\* A pass that, when the chosen POI does not fit, sets it aside and goes on
\* with the loop.
AfterScanSkipsMisfit(a, f, scan, scored) ==
    IF scan.raises # "none" THEN Raise(f, scan.raises)
    ELSE IF IsNone(scan.poi)
    THEN [f EXCEPT !.pc = "after_loop", !.pick = NoPick]
    ELSE
        LET walking_time == estimate_walking_time(scan.distance)
            total_time_needed ==
                walking_time + a.visit_time_per_poi * MilliPerMinute
        IN  IF ~FitsBudget(f.time_used, total_time_needed, a.duration_minutes)
            THEN [f EXCEPT !.visited_ids = @ \cup {Get(scan.poi).id},
                           !.pick = [poi |-> scan.poi, distance |-> scan.distance,
                                     score |-> scan.score]]
            ELSE Commit(a, f, scan, walking_time, total_time_needed, scored)

\* One pass of the while loop, after its scan (146-168 / 267-290).
AfterScan(a, f, scan, scored) ==
    IF scan.raises # "none" THEN Raise(f, scan.raises)
    ELSE IF IsNone(scan.poi)
    THEN [f EXCEPT !.pc = "after_loop", !.pick = NoPick]
    ELSE
        LET walking_time == estimate_walking_time(scan.distance)
            total_time_needed ==
                walking_time + a.visit_time_per_poi * MilliPerMinute
        IN  IF ~FitsBudget(f.time_used, total_time_needed, a.duration_minutes)
            THEN [f EXCEPT !.pc = "after_loop",
                           !.pick = [poi |-> scan.poi, distance |-> scan.distance,
                                     score |-> scan.score]]
            ELSE Commit(a, f, scan, walking_time, total_time_needed, scored)

\* 126-168: one pass of plan_route's loop.
PlanRoutePass(a, f) ==
    AfterScan(a, f,
              NearestScan(a.candidate_pois, 1, f.visited_ids,
                          f.current_position, None, None),
              FALSE)

\* return_distance_km as the result reports it (195 / 316), in 1/100 km.
ReportedReturnDistance(a, return_distance) ==
    IF a.return_to_start THEN PyRound(return_distance, MetresPerKm \div 100) ELSE 0

\* 170-196 / 292-319: the return leg and the result.  Distances of the
\* result are in 1/100 km and times in 1/10 minute where the code rounds
\* them; the stops and time_remaining are not rounded.
ReturnLeg(a, f) ==
    LET wanted == a.return_to_start /\ Len(f.route) > 0
        return_distance ==
            IF wanted THEN calculate_distance(f.current_position, a.start_coords)
            ELSE 0
        return_time == IF wanted THEN estimate_walking_time(return_distance) ELSE 0
        fits == wanted /\ ReturnFits(f.time_used, return_time, a.duration_minutes)
        total == IF fits THEN f.total_distance + return_distance ELSE f.total_distance
        used == IF fits THEN f.time_used + return_time ELSE f.time_used
        walking_time == SumWalking(f.route) + return_time
        visit_time == Len(f.route) * a.visit_time_per_poi
        base == [route |-> f.route,
                 total_distance_km |-> PyRound(total, MetresPerKm \div 100),
                 total_time_minutes |-> PyRound(used, MilliPerMinute \div 10),
                 walking_time_minutes |-> PyRound(walking_time, MilliPerMinute \div 10),
                 visit_time_minutes |-> visit_time,
                 pois_visited |-> Len(f.route),
                 time_remaining |-> Budget(a.duration_minutes) - used,
                 start_coords |-> a.start_coords,
                 return_to_start |-> a.return_to_start,
                 return_distance_km |-> ReportedReturnDistance(a, return_distance)]
        extra == [user_profile |-> a.user_profile, poi_scores |-> f.poi_scores]
    IN  [f EXCEPT !.pc = "done", !.total_distance = total, !.time_used = used,
                  !.result = Some(IF a.fn = "plan_route" THEN base ELSE base @@ extra)]

(***************************************************************************)
(* plan_route_with_preferences (route_planner.py 199-319)                  *)
(***************************************************************************)

\* A planner that does not check for the scorer.
ScorerNotChecked(a) == FALSE

\* 228-229: the scorer is required.
ScorerMissing(a) == ~a.score_poi_available

\* 228-244: the check of the scorer, the interests, the weights, the locals.
PrefEnter(a, f) ==
    IF ScorerMissing(a) THEN Raise(f, "ImportError")
    ELSE [f EXCEPT
            !.pc = "loop",
            !.interests = ResolveInterests(a.user_profile),
            !.weights = IF IsNone(a.scoring_weights)
                           \/ DOMAIN Get(a.scoring_weights) \ {"unit"} = {}
                        THEN Some(DEFAULT_WEIGHTS) ELSE a.scoring_weights,
            !.route = <<>>, !.visited_ids = {},
            !.current_position = a.start_coords, !.time_used = 0,
            !.total_distance = 0, !.poi_scores = <<>>]

\* A pass that scores the candidates from the start of the tour.
PrefPassFromStart(a, f) ==
    AfterScan(a, f,
              BestScan(a.candidate_pois, 1, f.visited_ids, a.start_coords,
                       f.interests, Get(f.weights), None, None, 0),
              TRUE)

\* 246-290: one pass of plan_route_with_preferences's loop.
PrefPass(a, f) ==
    AfterScan(a, f,
              BestScan(a.candidate_pois, 1, f.visited_ids, f.current_position,
                       f.interests, Get(f.weights), None, None, 0),
              TRUE)

(***************************************************************************)
(* rank_pois (poi_scorer.py 182-225)                                       *)
(***************************************************************************)

\* The check of 212: the POI has 'geo' with 'lat'.
RankHasCoordinates(poi) ==
    /\ "geo" \in DOMAIN poi
    /\ "lat" \in DOMAIN poi.geo

\* The for loop of 211-216 from candidate i on; scored_pois so far is acc.
RECURSIVE ScoreAll(_, _, _, _, _, _)
ScoreAll(cands, i, ints, position, w, acc) ==
    IF i > Len(cands) THEN [raises |-> "none", scored_pois |-> acc]
    ELSE
        LET poi == cands[i] IN
        IF ~RankHasCoordinates(poi)
        THEN ScoreAll(cands, i + 1, ints, position, w, acc)
        ELSE IF CoordsRaise(poi) # "none"
        THEN [raises |-> CoordsRaise(poi), scored_pois |-> <<>>]
        ELSE ScoreAll(cands, i + 1, ints, position, w,
                      Append(acc, score_poi(poi, ints, position, w)))

\* x put into a list sorted by descending score, behind the elements that
\* score at least as much.
RECURSIVE InsertByScore(_, _)
InsertByScore(sorted, x) ==
    IF sorted = <<>> THEN <<x>>
    ELSE IF Head(sorted).score >= x.score
    THEN <<Head(sorted)>> \o InsertByScore(Tail(sorted), x)
    ELSE <<x>> \o sorted

\* list.sort(key=score, reverse=True) of 219: descending, and stable (equal
\* scores keep their order).
RECURSIVE SortByScore(_, _)
SortByScore(seq, sorted) ==
    IF seq = <<>> THEN sorted
    ELSE SortByScore(Tail(seq), InsertByScore(sorted, Head(seq)))

\* Python's seq[:n]: the first n elements, and for a negative n all but the
\* last -n.
PySlice(seq, n) ==
    LET stop == IF n >= 0 THEN MinOf(n, Len(seq)) ELSE MaxOf(Len(seq) + n, 0)
    IN  SubSeq(seq, 1, stop)

\* A truncation that keeps one element too many.
TopSliceOneMore(scored_pois, n) ==
    IF IsNone(n) THEN scored_pois ELSE PySlice(scored_pois, Get(n) + 1)

\* 222-223: the truncation to top_n.
TopSlice(scored_pois, n) ==
    IF IsNone(n) THEN scored_pois ELSE PySlice(scored_pois, Get(n))

\* rank_pois as a whole; its current_position is a.start_coords and its
\* weights a.scoring_weights.
RankPois(a, f) ==
    LET ints == ResolveInterests(a.user_profile)
        all == ScoreAll(a.candidate_pois, 1, ints, a.start_coords,
                        a.scoring_weights, <<>>)
    IN  IF all.raises # "none"
        THEN Raise([f EXCEPT !.interests = ints], all.raises)
        ELSE [f EXCEPT !.pc = "done", !.interests = ints,
                       !.result = Some(TopSlice(SortByScore(all.scored_pois, <<>>),
                                                a.top_n))]

(***************************************************************************)
(* Actions                                                                 *)
(***************************************************************************)
\* An assignment of the locals that also takes the POIs visited out of the
\* caller's list.
BecomesConsuming(f) ==
    /\ pc' = f.pc
    /\ interests' = f.interests
    /\ weights' = f.weights
    /\ route' = f.route
    /\ visited_ids' = f.visited_ids
    /\ current_position' = f.current_position
    /\ time_used' = f.time_used
    /\ total_distance' = f.total_distance
    /\ poi_scores' = f.poi_scores
    /\ pick' = f.pick
    /\ raised' = f.raised
    /\ result' = f.result
    /\ candidate_pois' = SelectSeq(candidate_pois, LAMBDA p : p.id \notin f.visited_ids)
    /\ UNCHANGED <<fn, score_poi_available, start_coords, duration_minutes,
                   visit_time_per_poi, return_to_start, user_profile,
                   scoring_weights, top_n, summary>>

Becomes(f) ==
    /\ pc' = f.pc
    /\ interests' = f.interests
    /\ weights' = f.weights
    /\ route' = f.route
    /\ visited_ids' = f.visited_ids
    /\ current_position' = f.current_position
    /\ time_used' = f.time_used
    /\ total_distance' = f.total_distance
    /\ poi_scores' = f.poi_scores
    /\ pick' = f.pick
    /\ raised' = f.raised
    /\ result' = f.result
    /\ UNCHANGED <<args, summary>>

PlanRouteCall ==
    /\ fn = "plan_route" /\ pc = "call"
    /\ Becomes(PlanRouteEnter(Args, Frame))

PlanRouteLoop ==
    /\ fn = "plan_route" /\ pc = "loop"
    /\ Becomes(PlanRoutePass(Args, Frame))

PlanRouteReturn ==
    /\ fn = "plan_route" /\ pc = "after_loop"
    /\ Becomes(ReturnLeg(Args, Frame))

PrefCall ==
    /\ fn = "plan_route_with_preferences" /\ pc = "call"
    /\ Becomes(PrefEnter(Args, Frame))

PrefLoop ==
    /\ fn = "plan_route_with_preferences" /\ pc = "loop"
    /\ Becomes(PrefPass(Args, Frame))

PrefReturn ==
    /\ fn = "plan_route_with_preferences" /\ pc = "after_loop"
    /\ Becomes(ReturnLeg(Args, Frame))

RankPoisCall ==
    /\ fn = "rank_pois" /\ pc = "call"
    /\ Becomes(RankPois(Args, Frame))

(***************************************************************************)
(* get_route_summary (route_planner.py 322-358)                            *)
(***************************************************************************)

\* A report that has the return line when a return distance is reported.
SummaryReturnLineIfPositive(route_result) ==
    route_result.return_distance_km > 0

\* 343: if route_result['return_to_start'].
SummaryHasReturnLine(route_result) == route_result.return_to_start

\* The lines of one stop (351-357); a line is <<label, value>>, a value
\* formatted with :.2f is in 1/100 km and one with :.1f in 1/10 minute.
StopLines(i, stop) ==
    <<  <<"stop", <<i, stop.poi.name>> >>,
        <<"Distance from previous",
          PyRound(stop.distance_from_previous_km, MetresPerKm \div 100)>>,
        <<"Walking time",
          PyRound(stop.walking_time_minutes, MilliPerMinute \div 10)>> >>
    \o (IF "vibe_tags" \in DOMAIN stop.poi
        THEN << <<"Vibe tags", PySlice(stop.poi.vibe_tags, 3)>> >>
        ELSE <<>>)

RECURSIVE DetailLines(_, _)
DetailLines(stops, i) ==
    IF i > Len(stops) THEN <<>>
    ELSE StopLines(i, stops[i]) \o DetailLines(stops, i + 1)

\* get_route_summary (322-358): the lines of the report, or the KeyError of
\* poi['name'] (353) for a stop whose POI has no name.
get_route_summary(route_result) ==
    IF \E i \in 1..Len(route_result.route) :
          "name" \notin DOMAIN route_result.route[i].poi
    THEN [raises |-> "KeyError", lines |-> <<>>]
    ELSE [raises |-> "none",
          lines |->
            <<  <<"=", 60>>, <<"ROUTE SUMMARY", 0>>, <<"=", 60>>,
                <<"POIs visited", route_result.pois_visited>>,
                <<"Total distance", route_result.total_distance_km>>,
                <<"Walking time", route_result.walking_time_minutes>>,
                <<"Visit time", route_result.visit_time_minutes>>,
                <<"Total time", route_result.total_time_minutes>>,
                <<"Time remaining",
                  PyRound(route_result.time_remaining, MilliPerMinute \div 10)>> >>
            \o (IF SummaryHasReturnLine(route_result)
                THEN << <<"Return distance", route_result.return_distance_km>> >>
                ELSE <<>>)
            \o <<  <<"=", 60>>, <<"ROUTE DETAILS", 0>>, <<"=", 60>> >>
            \o DetailLines(route_result.route, 1)]

\* get_route_summary called with the result a planner returned.
GetRouteSummary ==
    /\ fn \in {"plan_route", "plan_route_with_preferences"}
    /\ pc = "done" /\ raised = "none"
    /\ summary = None
    /\ summary' = Some(get_route_summary(Get(result)))
    /\ UNCHANGED <<args, pc, locals, raised, result>>

Next ==
    \/ GetRouteSummary
    \/ PlanRouteCall
    \/ PlanRouteLoop
    \/ PlanRouteReturn
    \/ PrefCall
    \/ PrefLoop
    \/ PrefReturn
    \/ RankPoisCall

Spec == Init /\ [][Next]_vars

\* A call run to its end from frame f.
RECURSIVE Run(_, _)
Run(a, f) ==
    IF f.pc = "done" THEN f
    ELSE IF a.fn = "rank_pois" THEN Run(a, RankPois(a, f))
    ELSE IF a.fn = "plan_route"
    THEN Run(a, CASE f.pc = "call" -> PlanRouteEnter(a, f)
                  [] f.pc = "loop" -> PlanRoutePass(a, f)
                  [] OTHER -> ReturnLeg(a, f))
    ELSE Run(a, CASE f.pc = "call" -> PrefEnter(a, f)
                  [] f.pc = "loop" -> PrefPass(a, f)
                  [] OTHER -> ReturnLeg(a, f))

Returned == pc = "done" /\ raised = "none"
TheResult == Get(result)

(***************************************************************************)
(* Quantities the properties speak of                                      *)
(***************************************************************************)
Planners == {"plan_route", "plan_route_with_preferences"}

RECURSIVE SumDistance(_)
SumDistance(stops) ==
    IF stops = <<>> THEN 0
    ELSE stops[1].distance_from_previous_km + SumDistance(Tail(stops))

\* The sums over the committed stops.
StopsDistance == SumDistance(route)
StopsTime == SumWalking(route) + Len(route) * visit_time_per_poi * MilliPerMinute

\* The leg from the last stop back to the start.
LegDistance ==
    IF route = <<>> THEN 0
    ELSE calculate_distance(PoiCoords(route[Len(route)].poi), start_coords)
LegTime == estimate_walking_time(LegDistance)

\* The return leg was requested, a stop was added, and the leg does / does
\* not fit what the stops left of the budget.
LegRequested == return_to_start /\ Len(route) > 0
LegFits == StopsTime + LegTime <= Budget(duration_minutes)

(***************************************************************************)
(* C1                                                                      *)
(***************************************************************************)

\* C1 as stated: for any input, negative durations included, the result of
\* plan_route has total_time_minutes <= duration_minutes.
C1_AnyDuration ==
    (fn = "plan_route" /\ Returned)
        => TheResult.total_time_minutes <= duration_minutes * 10

\* C1, amended: for any input with duration_minutes >= 0 the result of
\* plan_route has total_time_minutes <= duration_minutes (a negative budget
\* yields an empty route whose total time 0 exceeds it).
C1_WithinBudget ==
    (fn = "plan_route" /\ Returned /\ duration_minutes >= 0)
        => TheResult.total_time_minutes <= duration_minutes * 10

\* A route with a stop and its return leg that uses the budget up.
C1_Witness ==
    /\ fn = "plan_route" /\ Returned
    /\ duration_minutes > 0
    /\ LegRequested /\ LegDistance > 0
    /\ TheResult.total_time_minutes = duration_minutes * 10

(***************************************************************************)
(* C2                                                                      *)
(***************************************************************************)

\* C2: with return_to_start, at least one stop, and a return leg that does
\* not fit the remaining budget, the result reports return_distance_km = 0.
C2_OmittedLegReportsZero ==
    (fn \in Planners /\ Returned /\ LegRequested /\ ~LegFits)
        => TheResult.return_distance_km = 0

(***************************************************************************)
(* C3                                                                      *)
(***************************************************************************)

\* C3: with return_to_start and a non-empty route, the return leg's distance
\* and time are in total_distance and time_used exactly when
\* time_used + return_time <= duration_minutes (an exact fit included);
\* otherwise the totals are the sums over the committed stops.
C3_ReturnLegInTotals ==
    (fn \in Planners /\ Returned /\ LegRequested)
        => IF LegFits
           THEN /\ total_distance = StopsDistance + LegDistance
                /\ time_used = StopsTime + LegTime
           ELSE /\ total_distance = StopsDistance
                /\ time_used = StopsTime

\* A return leg of positive length that fits exactly.
C3_Witness ==
    /\ fn \in Planners /\ Returned /\ LegRequested
    /\ LegDistance > 0
    /\ StopsTime + LegTime = Budget(duration_minutes)
    /\ total_distance = StopsDistance + LegDistance

(***************************************************************************)
(* C4                                                                      *)
(***************************************************************************)

\* C4 as stated: with duration_minutes = 0 the route is empty and
\* pois_visited = 0, for every candidate list, start and visit time.
C4_ZeroDurationEmpty ==
    (fn \in Planners /\ duration_minutes = 0 /\ Returned)
        => /\ TheResult.route = <<>>
           /\ TheResult.pois_visited = 0

\* C4, amended: with duration_minutes = 0 and visit_time_per_poi > 0 no stop
\* is ever committed, and a result has an empty route and pois_visited = 0
\* (with a visit time <= 0 a POI at the current position costs no time and
\* is committed).
C4_ZeroDurationPositiveVisit ==
    (fn \in Planners /\ duration_minutes = 0 /\ visit_time_per_poi > 0)
        => /\ route = <<>>
           /\ Returned => /\ TheResult.route = <<>>
                          /\ TheResult.pois_visited = 0

\* A zero budget, a positive visit time and a POI exactly at the start.
C4_Witness ==
    /\ fn \in Planners /\ Returned
    /\ duration_minutes = 0 /\ visit_time_per_poi > 0
    /\ \E i \in 1..Len(candidate_pois) :
          /\ CoordsRaise(candidate_pois[i]) = "none"
          /\ PoiCoords(candidate_pois[i]) = start_coords

(***************************************************************************)
(* C5                                                                      *)
(***************************************************************************)

\* C5: without the scorer plan_route_with_preferences fails with ImportError
\* before any of its locals is set: it never enters the loop, commits no
\* stop and returns no result.
C5_NoScorerFails ==
    (fn = "plan_route_with_preferences" /\ ~score_poi_available)
        => /\ pc \in {"call", "done"}
           /\ pc = "done" => raised = "ImportError"
           /\ interests = <<>> /\ weights = None
           /\ route = <<>> /\ visited_ids = {} /\ poi_scores = <<>>
           /\ result = None

\* The failed call, made with a candidate that nearest-neighbour planning
\* would have visited.
C5_Witness ==
    /\ fn = "plan_route_with_preferences" /\ ~score_poi_available
    /\ pc = "done" /\ raised = "ImportError"
    /\ duration_minutes > 0
    /\ candidate_pois # <<>> /\ candidate_pois[1] = PoiB

(***************************************************************************)
(* C6                                                                      *)
(***************************************************************************)

\* The POI has coordinates that are numbers.
ValidCoordinates(poi) == CoordsRaise(poi) = "none"

\* The POI can be walked to from the start and visited within the budget.
WithinReach(poi) ==
    estimate_walking_time(calculate_distance(start_coords, PoiCoords(poi)))
        + visit_time_per_poi * MilliPerMinute <= Budget(duration_minutes)

AllTooFar ==
    /\ candidate_pois # <<>>
    /\ \A i \in 1..Len(candidate_pois) :
          ValidCoordinates(candidate_pois[i]) => ~WithinReach(candidate_pois[i])

\* C6: with the scorer available, neither planner raises for an empty
\* candidate list, a zero or negative duration, or POIs too far to reach:
\* the call returns a well-formed result whose route is empty or shorter
\* than the candidate list.
C6_DegenerateInputsReturn ==
    (/\ fn \in Planners /\ score_poi_available /\ pc = "done"
     /\ candidate_pois = <<>> \/ duration_minutes <= 0 \/ AllTooFar)
        => /\ raised = "none"
           /\ result # None
           /\ TheResult.pois_visited = Len(TheResult.route)
           /\ \/ TheResult.route = <<>>
              \/ Len(TheResult.route) < Len(candidate_pois)

(***************************************************************************)
(* C7                                                                      *)
(***************************************************************************)

\* The call made with the candidates without valid coordinates left out.
WithoutInvalid(a) ==
    [a EXCEPT !.candidate_pois = SelectSeq(@, ValidCoordinates)]

\* C7: in both planners a candidate whose coordinates are missing or not
\* numbers is silently excluded: no error is raised, it never appears in the
\* route, and the route is the one planned without it.
C7_InvalidCoordinatesExcluded ==
    (fn \in Planners /\ score_poi_available)
        => /\ raised = "none"
           /\ \A k \in 1..Len(route) : ValidCoordinates(route[k].poi)
           /\ pc = "done" =>
                route = Run(WithoutInvalid(Args), Frame0(Args)).route

(***************************************************************************)
(* C8                                                                      *)
(***************************************************************************)

\* C8: rank_pois leaves out every candidate without valid coordinates (one
\* with 'lat' but no 'lng' included) without raising, and scores and returns
\* all the others.
C8_RankExcludesInvalid ==
    (fn = "rank_pois" /\ pc = "done")
        => /\ raised = "none"
           /\ \A k \in 1..Len(TheResult) : ValidCoordinates(TheResult[k].poi)
           /\ IsNone(top_n) =>
                /\ Len(TheResult) = Len(SelectSeq(candidate_pois, ValidCoordinates))
                /\ \A i \in 1..Len(candidate_pois) :
                      ValidCoordinates(candidate_pois[i]) =>
                        \E k \in 1..Len(TheResult) :
                            TheResult[k] = score_poi(candidate_pois[i], interests,
                                                     start_coords, scoring_weights)

(***************************************************************************)
(* C9                                                                      *)
(***************************************************************************)

\* The same call made with the default profile, run to its end.
WithDefaultProfile == Run([Args EXCEPT !.user_profile = "casual_tourist"], Frame0(Args))

\* C9: rank_pois and plan_route_with_preferences called with a name that is
\* not in USER_PROFILES end as the same call made with 'casual_tourist'
\* ends: the same ranking, the same route, distances, times and scores, and
\* no exception the other call does not raise.
C9_UnknownProfileIsDefault ==
    (/\ fn \in {"rank_pois", "plan_route_with_preferences"}
     /\ user_profile \notin DOMAIN USER_PROFILES
     /\ pc = "done")
        => LET ref == WithDefaultProfile IN
           /\ raised = ref.raised
           /\ route = ref.route
           /\ poi_scores = ref.poi_scores
           /\ total_distance = ref.total_distance
           /\ time_used = ref.time_used
           /\ IsNone(result) = IsNone(ref.result)
           /\ (Returned /\ fn = "rank_pois") => TheResult = Get(ref.result)
           /\ (Returned /\ fn = "plan_route_with_preferences") =>
                [TheResult EXCEPT !.user_profile = "casual_tourist"] = Get(ref.result)

\* An unknown profile, the default weights, and a route of two stops whose
\* scores differ.
C9_Witness ==
    /\ fn = "plan_route_with_preferences" /\ Returned
    /\ user_profile \notin DOMAIN USER_PROFILES
    /\ IsNone(scoring_weights)
    /\ Len(route) = 2
    /\ poi_scores[1] # poi_scores[2]

(***************************************************************************)
(* C10                                                                     *)
(***************************************************************************)
SortedByScore(scored_pois) ==
    \A i, j \in 1..Len(scored_pois) :
        i < j => scored_pois[i].score >= scored_pois[j].score

\* C10 as stated: the list rank_pois returns is sorted by non-increasing
\* score and, whenever top_n is given (any integer), has at most top_n
\* elements.
C10_SortedAtMostTopN ==
    (fn = "rank_pois" /\ Returned)
        => /\ SortedByScore(TheResult)
           /\ ~IsNone(top_n) => Len(TheResult) <= Get(top_n)

\* C10, amended: the list rank_pois returns is sorted by non-increasing
\* score and, whenever top_n is a non-negative integer, has at most top_n
\* elements (a negative top_n drops the last -top_n elements of the ranking
\* instead).
C10_SortedAtMostNonNegativeTopN ==
    (fn = "rank_pois" /\ Returned)
        => /\ SortedByScore(TheResult)
           /\ (~IsNone(top_n) /\ Get(top_n) >= 0) => Len(TheResult) <= Get(top_n)

\* Two scored candidates, the second scoring more, and top_n = 1: the
\* ranking is the second candidate alone.
C10_Witness ==
    /\ fn = "rank_pois" /\ Returned
    /\ top_n = Some(1)
    /\ Len(candidate_pois) = 2
    /\ \A i \in 1..2 : ValidCoordinates(candidate_pois[i])
    /\ Len(TheResult) = 1
    /\ TheResult[1].poi = candidate_pois[2]
    /\ TheResult[1].poi # candidate_pois[1]
(***************************************************************************)
(* C11                                                                     *)
(***************************************************************************)

\* Candidate i is the only one of the list that is eligible, that is, whose
\* coordinates are present and numbers.
OnlyEligible(i) ==
    /\ ValidCoordinates(candidate_pois[i])
    /\ \A j \in 1..Len(candidate_pois) :
          ValidCoordinates(candidate_pois[j]) => j = i

\* C11: planning over a candidate list with a single eligible POI and a
\* budget of at least walking_time(distance(start, poi)) + visit_time_per_poi
\* yields a route of exactly one stop, that POI, whose
\* distance_from_previous_km is distance(start, poi).
C11_SingleEligibleOneStop ==
    \A i \in 1..Len(candidate_pois) :
        (/\ fn \in Planners /\ score_poi_available /\ pc = "done"
         /\ OnlyEligible(i)
         /\ WithinReach(candidate_pois[i]))
            => /\ raised = "none"
               /\ result # None
               /\ Len(TheResult.route) = 1
               /\ TheResult.route[1].poi = candidate_pois[i]
               /\ TheResult.route[1].distance_from_previous_km
                    = calculate_distance(start_coords, PoiCoords(candidate_pois[i]))

(***************************************************************************)
(* The moment a stop was chosen, read back from the route                  *)
(***************************************************************************)

\* Where the walker stood when stop k was chosen: at the stop before it, or
\* at the start.
PositionBefore(k) ==
    IF k = 1 THEN start_coords ELSE PoiCoords(route[k - 1].poi)

\* The ids visited, and the time used, when stop k was chosen.
VisitedBefore(k) == {route[j].poi.id : j \in 1..(k - 1)}
TimeBefore(k) ==
    SumWalking(SubSeq(route, 1, k - 1))
        + (k - 1) * visit_time_per_poi * MilliPerMinute

\* The candidates (as indices of the input list) that were unvisited and
\* eligible when stop k was chosen; k = Len(route) + 1 is the present.
OpenBefore(k) ==
    {i \in 1..Len(candidate_pois) :
        /\ ValidCoordinates(candidate_pois[i])
        /\ candidate_pois[i].id \notin VisitedBefore(k)}

DistanceBefore(i, k) ==
    calculate_distance(PositionBefore(k), PoiCoords(candidate_pois[i]))

\* The score of candidate i from where the walker stood when stop k was
\* chosen.
ScoreBefore(i, k) ==
    score_poi(candidate_pois[i], interests, PositionBefore(k), weights).score

\* Walking to candidate i and visiting it fitted the budget left when stop k
\* was chosen.
FittedBefore(i, k) ==
    TimeBefore(k) + estimate_walking_time(DistanceBefore(i, k))
        + visit_time_per_poi * MilliPerMinute <= Budget(duration_minutes)

\* The stop after the last one: the present.
Now == Len(route) + 1

\* Candidate i is the highest-scoring open candidate at k, the earliest of
\* the list among equals.
IsBestBefore(i, k) ==
    /\ i \in OpenBefore(k)
    /\ \A j \in OpenBefore(k) :
          \/ ScoreBefore(j, k) < ScoreBefore(i, k)
          \/ ScoreBefore(j, k) = ScoreBefore(i, k) /\ j >= i

(***************************************************************************)
(* C12                                                                     *)
(***************************************************************************)

\* Every stop of the route was, when it was added, a candidate that fitted
\* the budget left and scored highest among the open candidates that fitted.
AddedBestOfFitting ==
    \A k \in 1..Len(route) :
        \E i \in OpenBefore(k) :
            /\ candidate_pois[i] = route[k].poi
            /\ FittedBefore(i, k)
            /\ \A j \in OpenBefore(k) :
                  FittedBefore(j, k) => ScoreBefore(j, k) <= ScoreBefore(i, k)

\* C12: at each step of plan_route_with_preferences the POI added is the
\* highest-scoring unvisited POI among those that fit the remaining
\* budget, and stops are added until the time is exhausted: when
\* the loop has ended no unvisited eligible POI fits what is left.
C12_BestFittingUntilExhausted ==
    fn = "plan_route_with_preferences" =>
        /\ AddedBestOfFitting
        /\ pc = "after_loop" => \A i \in OpenBefore(Now) : ~FittedBefore(i, Now)

(***************************************************************************)
(* Calls of calculate_interest_match, calculate_popularity_score and       *)
(* calculate_distance on their own                                         *)
(***************************************************************************)

\* The longest list of tags and of interests.
MaxTags == 2

TagUniverse == {"History", "history", "Haunted", "ruins", "architecture"}
InterestUniverse == {"History", "history", "ruins", "scenic"}
InterestLists == SeqsUpTo(InterestUniverse, MaxTags)

\* POIs without 'vibe_tags' and with every list of tags, repeated tags and
\* tags that differ in case only included.
TaggedPois ==
    {[id |-> 1]} \cup {[id |-> 1, vibe_tags |-> t] : t \in SeqsUpTo(TagUniverse, MaxTags)}

\* source_reliability in tenths: negative, 0, below and above the heuristic
\* score, 1.0, above 1.0.
Hints == {-5, 0, 3, 9, 10, 12}
ContentChoices == {None, Some(<<>>), Some(<<"one">>)}

\* POIs with every combination of absent, empty and filled 'facts' and
\* 'visual_cues', without and with 'source_reliability'.
PoiWithContent(facts, visual_cues, hint) ==
    LET f == IF IsNone(facts) THEN [id |-> 1]
             ELSE [id |-> 1, facts |-> Get(facts)]
        v == IF IsNone(visual_cues) THEN f
             ELSE f @@ [visual_cues |-> Get(visual_cues)]
    IN  IF IsNone(hint) THEN v ELSE v @@ [source_reliability |-> Get(hint)]
HintedPois ==
    {PoiWithContent(f, v, h) :
        f \in ContentChoices, v \in ContentChoices,
        h \in {None} \cup {Some(x) : x \in Hints}}

\* Coordinates on two longitudes that differ by one step.
Coordinates == {<<lat, lng>> : lat \in {0, 125, 254}, lng \in {Meridian, Meridian + 1}}

PureFunctions ==
    {"calculate_interest_match", "calculate_popularity_score", "calculate_distance"}

\* The arguments: the POI is candidate_pois[1], user_interests is interests,
\* coord1 is start_coords and coord2 is current_position.
InitFunctions ==
    /\ fn \in PureFunctions
    /\ candidate_pois \in
          CASE fn = "calculate_interest_match" -> {<<p>> : p \in TaggedPois}
            [] fn = "calculate_popularity_score" -> {<<p>> : p \in HintedPois}
            [] OTHER -> {<<>>}
    /\ interests \in
          IF fn = "calculate_interest_match" THEN InterestLists ELSE {<<>>}
    /\ start_coords \in IF fn = "calculate_distance" THEN Coordinates ELSE {Coord(0)}
    /\ current_position \in
          IF fn = "calculate_distance" THEN Coordinates ELSE {Coord(0)}
    /\ score_poi_available = TRUE
    /\ duration_minutes = 0
    /\ visit_time_per_poi = DEFAULT_VISIT_TIME_MINUTES
    /\ return_to_start = FALSE
    /\ user_profile = "casual_tourist"
    /\ scoring_weights = None
    /\ top_n = None
    /\ pc = "call"
    /\ weights = None
    /\ route = <<>>
    /\ visited_ids = {}
    /\ time_used = 0
    /\ total_distance = 0
    /\ poi_scores = <<>>
    /\ pick = NoPick
    /\ raised = "none"
    /\ result = None
    /\ summary = None

Returns(value) ==
    /\ pc = "call"
    /\ pc' = "done"
    /\ result' = Some(value)
    /\ UNCHANGED <<args, locals, raised, summary>>

InterestMatchCall ==
    /\ fn = "calculate_interest_match"
    /\ Returns(calculate_interest_match(candidate_pois[1], interests))

PopularityCall ==
    /\ fn = "calculate_popularity_score"
    /\ Returns(calculate_popularity_score(candidate_pois[1]))

DistanceCall ==
    /\ fn = "calculate_distance"
    /\ Returns(calculate_distance(start_coords, current_position))

NextFunctions ==
    \/ InterestMatchCall
    \/ PopularityCall
    \/ DistanceCall

SpecFunctions == InitFunctions /\ [][NextFunctions]_vars

(***************************************************************************)
(* C13                                                                     *)
(***************************************************************************)

\* The lower-cased tags of a POI; none when it has no 'vibe_tags'.
PoiTagSet(poi) ==
    IF "vibe_tags" \in DOMAIN poi THEN {Lower(t) : t \in Range(poi.vibe_tags)} ELSE {}

InterestSet == {Lower(t) : t \in Range(interests)}

\* C13: calculate_interest_match returns |intersection| / |union| of the
\* lower-cased POI tag set and the lower-cased interest set; it returns 0
\* when either set is empty, the POI has no tags or the sets are disjoint;
\* the value lies in [0, 1].
C13_JaccardOfLowerCasedSets ==
    (fn = "calculate_interest_match" /\ pc = "done") =>
        LET P == PoiTagSet(candidate_pois[1])
            U == InterestSet
            v == Get(result)
        IN  /\ 0 <= v /\ v <= JaccardScale
            /\ (P = {} \/ U = {} \/ P \cap U = {}) => v = 0
            /\ (P # {} /\ U # {}) =>
                  v * Cardinality(P \cup U) = Cardinality(P \cap U) * JaccardScale

\* A POI tagged "History" matched against the interest "history" and
\* another one: a ratio strictly between 0 and 1.
C13_Witness ==
    /\ fn = "calculate_interest_match" /\ pc = "done"
    /\ "vibe_tags" \in DOMAIN candidate_pois[1]
    /\ "History" \in Range(candidate_pois[1].vibe_tags)
    /\ "history" \in Range(interests)
    /\ 0 < Get(result) /\ Get(result) < JaccardScale

(***************************************************************************)
(* C14                                                                     *)
(***************************************************************************)

\* The POI without its quality hint.
WithoutHint(poi) ==
    [key \in DOMAIN poi \ {"source_reliability"} |-> poi[key]]

\* C14: calculate_popularity_score lies in [0, 1], and with a quality hint,
\* whatever its value, it is at least the score of the same POI without the
\* hint.
C14_PopularityClampedHintRaises ==
    (fn = "calculate_popularity_score" /\ pc = "done") =>
        /\ 0 <= Get(result) /\ Get(result) <= 10
        /\ Get(result) >= calculate_popularity_score(WithoutHint(candidate_pois[1]))

\* A POI with a negative hint has been scored.
C14_Witness ==
    /\ fn = "calculate_popularity_score" /\ pc = "done"
    /\ "source_reliability" \in DOMAIN candidate_pois[1]
    /\ candidate_pois[1].source_reliability < 0
    /\ Get(result) > 0

(***************************************************************************)
(* C15                                                                     *)
(***************************************************************************)

IsNearestBefore(i, k) ==
    /\ i \in OpenBefore(k)
    /\ \A j \in OpenBefore(k) :
          \/ DistanceBefore(j, k) > DistanceBefore(i, k)
          \/ DistanceBefore(j, k) = DistanceBefore(i, k) /\ j >= i

\* C16: in plan_route every committed stop was, when it was chosen, at the
\* minimum distance from the current position among the unvisited eligible
\* candidates, and of several candidates at that distance the earliest in
\* the input list.
C16_NearestFirstWins ==
    fn = "plan_route" =>
        \A k \in 1..Len(route) :
            \E i \in 1..Len(candidate_pois) :
                candidate_pois[i] = route[k].poi /\ IsNearestBefore(i, k)

\* A stop was chosen while another POI, later in the list, was as near.
C16_Witness ==
    /\ fn = "plan_route"
    /\ \E k \in 1..Len(route) :
          \E i, j \in OpenBefore(k) :
              /\ candidate_pois[i] = route[k].poi
              /\ candidate_pois[j].id # candidate_pois[i].id
              /\ DistanceBefore(j, k) = DistanceBefore(i, k)
              /\ i < j

(***************************************************************************)
(* C17                                                                     *)
(***************************************************************************)

\* The scan of the pass that starts in the present state: the candidate the
\* policy chooses.
ChosenScan ==
    IF fn = "plan_route"
    THEN NearestScan(candidate_pois, 1, visited_ids, current_position, None, None)
    ELSE BestScan(candidate_pois, 1, visited_ids, current_position,
                  interests, Get(weights), None, None, 0)

\* There is a chosen candidate and it fails the check
\* time_used + walking_time + visit_time > duration_minutes.
ChosenMisfits ==
    LET scan == ChosenScan IN
    /\ scan.raises = "none"
    /\ ~IsNone(scan.poi)
    /\ time_used + estimate_walking_time(scan.distance)
            + visit_time_per_poi * MilliPerMinute > Budget(duration_minutes)

\* A step of a planner: a pass whose chosen candidate misfits commits
\* nothing and leaves the loop; a step after the loop commits nothing and
\* ends the call.
MisfitEndsLoopStep ==
    fn \in Planners =>
        /\ (pc = "loop" /\ ChosenMisfits) => (pc' = "after_loop" /\ route' = route)
        /\ pc \in {"after_loop", "done"} => (pc' = "done" /\ route' = route)

ScoreFromStart(i) ==
    score_poi(candidate_pois[i], interests, start_coords, weights).score

\* C18: in plan_route_with_preferences every committed stop had, when it
\* was chosen, the maximum score among the unvisited eligible candidates,
\* the scores being computed from the position of the stop committed before
\* it (the start for the first), and of several candidates with that score
\* it was the earliest in the input list.
C18_BestFromCurrentPosition ==
    fn = "plan_route_with_preferences" =>
        \A k \in 1..Len(route) :
            \E i \in 1..Len(candidate_pois) :
                candidate_pois[i] = route[k].poi /\ IsBestBefore(i, k)

\* A second or later stop was chosen that is not the choice of the scores
\* computed from the start: another open candidate outscores it there, or
\* equals it and is earlier in the list.
C18_Witness ==
    /\ fn = "plan_route_with_preferences"
    /\ \E k \in 2..Len(route) :
          \E i, j \in OpenBefore(k) :
              /\ candidate_pois[i] = route[k].poi
              /\ IsBestBefore(i, k)
              /\ candidate_pois[j].id # candidate_pois[i].id
              /\ \/ ScoreFromStart(j) > ScoreFromStart(i)
                 \/ ScoreFromStart(j) = ScoreFromStart(i) /\ j < i

(***************************************************************************)
(* C19                                                                     *)
(***************************************************************************)

\* The score the POI of stop k has from the position before stop k.
ScoreWhenSelected(k) ==
    score_poi(route[k].poi, interests, PositionBefore(k), weights).score

\* C19: in plan_route_with_preferences poi_scores is as long as the route,
\* poi_scores[k] is the score the POI of stop k had when it was selected,
\* computed from the position before stop k, and the result returns the
\* two lists so.
C19_ScoresParallelToRoute ==
    fn = "plan_route_with_preferences" =>
        /\ Len(poi_scores) = Len(route)
        /\ \A k \in 1..Len(route) : poi_scores[k] = ScoreWhenSelected(k)
        /\ Returned => /\ TheResult.route = route
                       /\ TheResult.poi_scores = poi_scores

\* A route of two stops or more has been returned, the score of a later
\* stop differing from the score its POI has from the start.
C19_Witness ==
    /\ fn = "plan_route_with_preferences" /\ Returned
    /\ \E k \in 2..Len(TheResult.route) :
          TheResult.poi_scores[k]
            # score_poi(route[k].poi, interests, start_coords, weights).score

(***************************************************************************)
(* C20                                                                     *)
(***************************************************************************)

\* C20: in both policies the distance_from_previous_km of every stop is the
\* distance from the coordinates of the stop before it (from the start for
\* the first stop), and its walking_time_minutes is the time that distance
\* takes at 5 km/h.
C20_StopDistanceFromPreviousStop ==
    fn \in Planners =>
        \A k \in 1..Len(route) :
            /\ route[k].distance_from_previous_km
                  = calculate_distance(PositionBefore(k), PoiCoords(route[k].poi))
            /\ route[k].walking_time_minutes * WALKING_SPEED_KMH * MetresPerKm
                  = route[k].distance_from_previous_km
                        * MinutesPerHour * MilliPerMinute

\* A route of two stops or more has been returned, a later stop lying at
\* another distance from the start than from the stop before it.
C20_Witness ==
    /\ fn \in Planners /\ Returned
    /\ \E k \in 2..Len(TheResult.route) :
          /\ TheResult.route[k].distance_from_previous_km > 0
          /\ TheResult.route[k].distance_from_previous_km
                # calculate_distance(start_coords, PoiCoords(route[k].poi))

(***************************************************************************)
(* C21                                                                     *)
(***************************************************************************)

\* C21: in plan_route_with_preferences, for a non-negative duration_minutes
\* and a non-negative visit time, time_used <= duration_minutes holds after
\* every committed stop and after the return-leg step, and the returned
\* time_remaining is not negative.
C21_PrefWithinBudget ==
    (/\ fn = "plan_route_with_preferences"
     /\ duration_minutes >= 0 /\ visit_time_per_poi >= 0)
        => /\ time_used <= Budget(duration_minutes)
           /\ Returned => TheResult.time_remaining >= 0

\* A route of two stops has been returned that uses the budget up, return
\* leg included.
C21_Witness ==
    /\ fn = "plan_route_with_preferences" /\ Returned
    /\ Len(route) >= 2
    /\ LegRequested /\ LegTime > 0 /\ LegFits
    /\ TheResult.time_remaining = 0

(***************************************************************************)
(* C22                                                                     *)
(***************************************************************************)

\* A step of a planner leaves the candidate list as it is: the same length,
\* the same order, and in every place the record with the same fields and
\* values.
InputsKept ==
    fn \in Planners =>
        /\ Len(candidate_pois') = Len(candidate_pois)
        /\ \A i \in 1..Len(candidate_pois) :
              /\ DOMAIN candidate_pois'[i] = DOMAIN candidate_pois[i]
              /\ \A key \in DOMAIN candidate_pois[i] :
                    candidate_pois'[i][key] = candidate_pois[i][key]
        /\ start_coords' = start_coords

\* C22: plan_route and plan_route_with_preferences never modify their
\* inputs: through every step of a call the candidate list keeps its length
\* and order and every POI record its fields and values.
C22_InputsNotModified == [][InputsKept]_vars

\* A call has returned a route of two stops from a list of three candidates
\* of which two share an id.
C22_Witness ==
    /\ fn \in Planners /\ Returned
    /\ Len(candidate_pois) = 3
    /\ Len(route) = 2
    /\ \E i, j \in 1..3 :
          i # j /\ candidate_pois[i].id = candidate_pois[j].id

(***************************************************************************)
(* C23                                                                     *)
(***************************************************************************)

\* The report has a return-distance line.
HasReturnLine(lines) ==
    \E i \in 1..Len(lines) : lines[i][1] = "Return distance"

\* A step that produces the summary leaves the Route Result as it is, and
\* the report it produces has the return-distance line exactly when the
\* result's return_to_start is set.
SummaryStep ==
    (summary = None /\ summary' # None) =>
        /\ result' = result
        /\ Get(summary').raises = "none" =>
              (HasReturnLine(Get(summary').lines) <=> Get(result).return_to_start)

\* C23: get_route_summary leaves the Route Result it is given unchanged, and
\* the report contains a return-distance line if and only if the result's
\* return_to_start flag is set.
C23_SummaryReadsOnly == [][SummaryStep]_vars

\* The report of a route with a stop, planned with return_to_start, has been
\* produced and has the line.
C23_Witness ==
    /\ summary # None
    /\ Get(summary).raises = "none"
    /\ Len(TheResult.route) >= 1
    /\ TheResult.return_to_start
    /\ HasReturnLine(Get(summary).lines)

(***************************************************************************)
(* C24                                                                     *)
(***************************************************************************)

\* C24: in both policies no POI id occurs twice in the route, whatever
\* records of the candidate list share an id, and the visited-id set is the
\* set of the ids of the stops committed so far.
C24_NoIdTwice ==
    fn \in Planners =>
        /\ \A j, k \in 1..Len(route) :
              route[j].poi.id = route[k].poi.id => j = k
        /\ visited_ids = {route[k].poi.id : k \in 1..Len(route)}

\* The loop is at a pass after a stop, with an unvisited-looking record in
\* the list: one that shares its id with a stop of the route but is another
\* record.
C24_Witness ==
    /\ fn \in Planners /\ pc = "loop"
    /\ \E k \in 1..Len(route) :
          \E i \in 1..Len(candidate_pois) :
              /\ candidate_pois[i].id = route[k].poi.id
              /\ candidate_pois[i] # route[k].poi
              /\ ValidCoordinates(candidate_pois[i])

(***************************************************************************)
(* C25                                                                     *)
(***************************************************************************)

\* The ids of the eligible candidates.
EligibleIds ==
    {candidate_pois[i].id :
        i \in {j \in 1..Len(candidate_pois) : ValidCoordinates(candidate_pois[j])}}

\* A pass of the main loop either leaves the loop or commits one stop, whose
\* id is an eligible one that was not visited before.
PassExitsOrCommits ==
    (fn \in Planners /\ pc = "loop") =>
        \/ pc' # "loop"
        \/ /\ Len(route') = Len(route) + 1
           /\ SubSeq(route', 1, Len(route)) = route
           /\ route'[Len(route')].poi.id \in EligibleIds \ visited_ids
           /\ visited_ids' = visited_ids \cup {route'[Len(route')].poi.id}

\* The passes of the main loop made so far: one for each stop, and the one
\* that left the loop.
Passes ==
    IF pc \in {"call", "loop"} THEN Len(route) ELSE Len(route) + 1

\* A step of a call: from the entry into the loop or to the end, from a
\* pass of the loop to the next pass or out of the loop, from behind the
\* loop to the end; the call never goes back.
StepsForward ==
    fn \in Planners =>
        /\ pc = "call" => pc' \in {"loop", "done"}
        /\ pc = "loop" => pc' \in {"loop", "after_loop", "done"}
        /\ pc = "after_loop" => pc' = "done"
        /\ pc = "done" => pc' = "done"

\* The route and the passes are within their bounds, and the call is at
\* its entry, in the loop, behind the loop or has ended.
WithinPasses ==
    fn \in Planners =>
        /\ Len(route) <= Cardinality(EligibleIds)
        /\ Passes <= Cardinality(EligibleIds) + 1
        /\ pc \in {"call", "loop", "after_loop", "done"}

TerminatingStep ==
    /\ StepsForward
    /\ PassExitsOrCommits
    /\ WithinPasses
    /\ WithinPasses'

\* C25: every call of plan_route and plan_route_with_preferences ends: the
\* call only moves forward, each pass of the main loop either exits or
\* commits a stop with a previously unvisited id, the loop makes at most
\* (number of distinct eligible ids + 1) passes and the route has at most as
\* many stops as there are distinct eligible ids.
C25_Terminates == [][TerminatingStep]_vars

\* A call has ended after as many stops as there are distinct eligible ids,
\* the list holding more eligible records than ids.
C25_Witness ==
    /\ fn \in Planners /\ Returned
    /\ Len(route) = Cardinality(EligibleIds)
    /\ Len(route) = 2
    /\ \A i \in 1..Len(candidate_pois) : ValidCoordinates(candidate_pois[i])
    /\ Len(candidate_pois) = 3

(***************************************************************************)
(* C26                                                                     *)
(***************************************************************************)

\* C26: in every result of either policy the total elapsed time is the
\* walking time plus the visit time, also when return_to_start is requested
\* and the return leg does not fit the budget.  The three are read from the
\* result, in 1/10 minute; the visit time is a whole number of minutes, so
\* rounding the other two to 1/10 minute keeps the equality.
C26_TotalIsWalkingPlusVisit ==
    (fn \in Planners /\ Returned) =>
        TheResult.total_time_minutes
            = TheResult.walking_time_minutes + 10 * TheResult.visit_time_minutes


(***************************************************************************)
(* C27                                                                     *)
(***************************************************************************)

\* The return leg is in the totals: requested, a stop to return from, and
\* within the budget.
LegTaken == LegRequested /\ LegFits

\* C27: in every result of either policy the total distance, before it is
\* rounded, is the sum of distance_from_previous_km over the stops, plus the
\* return distance exactly when the leg was requested, the route is not
\* empty and the leg fitted the budget; with an empty route every total of
\* the result is 0 and return_distance_km is 0, with return_to_start too.
C27_TotalDistanceIsSumOfLegs ==
    (fn \in Planners /\ Returned) =>
        /\ total_distance
              = StopsDistance + (IF LegTaken THEN LegDistance ELSE 0)
        /\ route = <<>> =>
              /\ TheResult.total_distance_km = 0
              /\ TheResult.total_time_minutes = 0
              /\ TheResult.walking_time_minutes = 0
              /\ TheResult.visit_time_minutes = 0
              /\ TheResult.pois_visited = 0
              /\ TheResult.return_distance_km = 0

\* Two stops and a requested walk back of positive length that does not fit:
\* the total is the sum over the two stops.
C27_Witness ==
    /\ fn \in Planners /\ Returned
    /\ LegRequested /\ ~LegFits
    /\ Len(route) = 2
    /\ LegDistance > 0
    /\ total_distance = StopsDistance

\* An empty route returned for a non-empty list, with return_to_start.
C27_WitnessEmpty ==
    /\ fn \in Planners /\ Returned
    /\ return_to_start /\ route = <<>>
    /\ Len(candidate_pois) > 0
    /\ TheResult.return_distance_km = 0


(***************************************************************************)
(* C28                                                                     *)
(***************************************************************************)

\* rank_pois(candidate_pois, user_profile, start_coords, scoring_weights),
\* without top_n, run to its end.
RankedFromStart ==
    Run([Args EXCEPT !.fn = "rank_pois", !.top_n = None], Frame0(Args))

\* Every candidate has 'geo' with both 'lat' and 'lng'.
AllHaveLatLng ==
    \A i \in 1..Len(candidate_pois) : HasCoordinates(candidate_pois[i])

\* C28: for a candidate list in which every POI has both lat and lng,
\* whenever plan_route_with_preferences returns a non-empty route, rank_pois
\* called with the same candidates, profile, start and weights returns a
\* list whose first element holds the POI of the first stop, and
\* poi_scores[0] is that element's score.
C28_FirstStopIsTopRanked ==
    (/\ fn = "plan_route_with_preferences" /\ Returned
     /\ route # <<>> /\ AllHaveLatLng)
        => LET ranked == RankedFromStart IN
           /\ ranked.raised = "none"
           /\ Get(ranked.result) # <<>>
           /\ Get(ranked.result)[1].poi = route[1].poi
           /\ Get(ranked.result)[1].score = poi_scores[1]

\* A first stop that shares the top score with a later candidate of another
\* id: both tie-break policies take the earlier one.
C28_Witness ==
    /\ fn = "plan_route_with_preferences" /\ Returned
    /\ route # <<>> /\ AllHaveLatLng
    /\ \E i, j \in 1..Len(candidate_pois) :
          /\ i < j
          /\ candidate_pois[i] = route[1].poi
          /\ candidate_pois[j].id # candidate_pois[i].id
          /\ ScoreFromStart(j) = poi_scores[1]
    /\ Get(RankedFromStart.result)[1].poi = route[1].poi


(***************************************************************************)
(* C29                                                                     *)
(***************************************************************************)

\* plan_route called with the same start, candidates, duration, visit time
\* and return flag, run to its end.
AsPlanRoute == Run([Args EXCEPT !.fn = "plan_route"], Frame0(Args))

\* The weights given score by distance alone: alpha = 0, beta = 0, delta > 0.
DistanceOnlyWeights ==
    /\ ~IsNone(scoring_weights)
    /\ Get(scoring_weights).alpha = 0
    /\ Get(scoring_weights).beta = 0
    /\ Get(scoring_weights).delta > 0

\* The places of the call: the start and the eligible POIs.
Places ==
    {start_coords} \cup
    {PoiCoords(candidate_pois[i]) :
        i \in {j \in 1..Len(candidate_pois) : ValidCoordinates(candidate_pois[j])}}

\* All distances between the start and the POIs and between POIs are below
\* the 2.0 km at which the distance penalty saturates.
AllDistancesBelowSaturation ==
    \A p, q \in Places : calculate_distance(p, q) < 2 * MetresPerKm

\* From every place, two POIs at different distances get different scores.
DistancesTellScoresApart ==
    \A p \in Places : \A i, j \in 1..Len(candidate_pois) :
        (/\ ValidCoordinates(candidate_pois[i])
         /\ ValidCoordinates(candidate_pois[j])
         /\ calculate_distance(p, PoiCoords(candidate_pois[i]))
               # calculate_distance(p, PoiCoords(candidate_pois[j])))
            => score_poi(candidate_pois[i], interests, p, scoring_weights).score
                  # score_poi(candidate_pois[j], interests, p, scoring_weights).score

\* The call ended as plan_route ends on the same arguments: the same
\* exception if any, the same stops with the same distances and times, and
\* the same totals.
SameAsPlanRoute ==
    LET other == AsPlanRoute IN
    /\ raised = other.raised
    /\ route = other.route
    /\ total_distance = other.total_distance
    /\ time_used = other.time_used
    /\ Returned =>
          \A key \in DOMAIN Get(other.result) :
              TheResult[key] = Get(other.result)[key]

\* C29 as stated: with weights alpha = 0, beta = 0, delta > 0 and all
\* distances below 2.0 km, plan_route_with_preferences returns the stops,
\* per-stop distances and totals plan_route returns for the same start,
\* candidates, duration, visit time and return flag.
C29_DistanceOnlyIsNearestNeighbour ==
    (/\ fn = "plan_route_with_preferences" /\ pc = "done"
     /\ score_poi_available
     /\ DistanceOnlyWeights /\ AllDistancesBelowSaturation)
        => SameAsPlanRoute

\* C29, amended: the same, for weights under which two POIs at different
\* distances never get the same score (delta * penalty is rounded, and a
\* very small delta gives POIs at different distances one score).
C29_DistanceOnlyDistinctScores ==
    (/\ fn = "plan_route_with_preferences" /\ pc = "done"
     /\ score_poi_available
     /\ DistanceOnlyWeights /\ AllDistancesBelowSaturation
     /\ DistancesTellScoresApart)
        => SameAsPlanRoute

\* Distance alone decides, two candidates are as far from the start as each
\* other and nearer than the rest, the earlier one is the first stop of both
\* planners, and the walk back is in the totals.
C29_Witness ==
    /\ fn = "plan_route_with_preferences" /\ Returned
    /\ DistanceOnlyWeights /\ AllDistancesBelowSaturation
    /\ DistancesTellScoresApart
    /\ route # <<>>
    /\ \E i, j \in 1..Len(candidate_pois) :
          /\ i < j
          /\ candidate_pois[i] = route[1].poi
          /\ candidate_pois[j].id # candidate_pois[i].id
          /\ ValidCoordinates(candidate_pois[j])
          /\ ScoreFromStart(j) = poi_scores[1]
    /\ LegRequested /\ LegFits
    /\ route = AsPlanRoute.route
    /\ TheResult.total_distance_km = Get(AsPlanRoute.result).total_distance_km

(***************************************************************************)
(* C30                                                                     *)
(***************************************************************************)

\* The route of the same call made with the budget d.
RouteWithDuration(d) ==
    Run([Args EXCEPT !.duration_minutes = d], Frame0(Args)).route

IsPrefixOf(s, t) == Len(s) <= Len(t) /\ SubSeq(t, 1, Len(s)) = s

\* C30: for a fixed start, candidate list, visit time, profile and weights
\* and two durations D <= D', the route planned with D is a prefix of the
\* route planned with D', in both policies (with D = D' the two calls are
\* one call, and the function has no state and draws no random number).
C30_RouteGrowsWithBudget ==
    (fn \in Planners /\ pc = "done") =>
        \A d \in Durations :
            d > duration_minutes => IsPrefixOf(route, RouteWithDuration(d))

\* A smaller budget that ends the route after its first stop and a larger
\* one that continues it.
C30_Witness ==
    /\ fn \in Planners /\ Returned
    /\ Len(route) = 1
    /\ \E d \in Durations :
          /\ d > duration_minutes
          /\ Len(RouteWithDuration(d)) = 2
          /\ RouteWithDuration(d)[1].poi = route[1].poi

=============================================================================
